---------------------------- MODULE Spec2Model ----------------------------
(***************************************************************************)
(* A model of src/deno_loader_plugin.rs: the redirect resolver             *)
(* (follow_redirects), the module lookup (get_local_path) and the two      *)
(* plugin hooks (resolve_id, load) of DenoLoaderPlugin.                    *)
(*                                                                         *)
(* Strings are sequences of one-character strings, so that starts_with,    *)
(* split and the URL joins are computed on the characters.                 *)
(***************************************************************************)
EXTENDS Naturals, Sequences, FiniteSets

VARIABLES loop, call, env, outcome, effects, tasks

vars == <<loop, call, env, outcome, effects, tasks>>

---------------------------------------------------------------------------
(* Bounds of the model. *)

\* redirect maps hold at most MaxRedirects entries
MaxRedirects == 2
\* provider responses list at most MaxModules modules
MaxModules == 2
\* concurrent hook invocations in flight
NumTasks == 2

---------------------------------------------------------------------------
(* Strings. *)

StartsWith(s, p) == Len(s) >= Len(p) /\ SubSeq(s, 1, Len(p)) = p

Drop(s, n) == SubSeq(s, n + 1, Len(s))

\* the index of the first occurrence of character ch in s at or after
\* position from, 0 when there is none
IndexFrom(s, ch, from) ==
  IF \E i \in from..Len(s) : s[i] = ch
  THEN CHOOSE i \in from..Len(s) : s[i] = ch /\ \A j \in from..(i - 1) : s[j] # ch
  ELSE 0

\* the index of the last occurrence of ch in s, 0 when there is none
LastIndex(s, ch) ==
  IF \E i \in 1..Len(s) : s[i] = ch
  THEN CHOOSE i \in 1..Len(s) : s[i] = ch /\ \A j \in (i + 1)..Len(s) : s[j] # ch
  ELSE 0

JSR == <<"j", "s", "r", ":">>
NPM == <<"n", "p", "m", ":">>
HTTP == <<"h", "t", "t", "p", ":">>
HTTPS == <<"h", "t", "t", "p", "s", ":">>
FILE == <<"f", "i", "l", "e", ":">>

---------------------------------------------------------------------------
(* Result<String, &'static str> *)

NoStr == <<>>

Ok(s) == [ok |-> TRUE, val |-> s, err |-> ""]
Err(e) == [ok |-> FALSE, val |-> NoStr, err |-> e]

---------------------------------------------------------------------------
(* follow_redirects *)

\* if instead of while: the first redirect target is taken as the result
LoopIterOneHop(current, seen, redirects) ==
  IF current \in DOMAIN redirects
  THEN [done |-> TRUE, current |-> redirects[current], seen |-> seen \cup {current},
        result |-> Ok(redirects[current])]
  ELSE [done |-> TRUE, current |-> current, seen |-> seen, result |-> Ok(current)]

\* the seen set is never consulted
LoopIterNoSeen(current, seen, redirects) ==
  IF current \in DOMAIN redirects
  THEN [done |-> FALSE, current |-> redirects[current],
        seen |-> seen \cup {current}, result |-> Err("")]
  ELSE [done |-> TRUE, current |-> current, seen |-> seen, result |-> Ok(current)]

\* One pass of `while let Some(next) = redirects.get(&current)`: the loop
\* ends with Ok(current) when current is no key, with the error when
\* current was already inserted into seen, and goes on from next otherwise.
LoopIter(current, seen, redirects) ==
  IF current \in DOMAIN redirects
  THEN IF current \in seen
       THEN [done |-> TRUE, current |-> current, seen |-> seen,
             result |-> Err("Circular redirect detected")]
       ELSE [done |-> FALSE, current |-> redirects[current],
             seen |-> seen \cup {current}, result |-> Err("")]
  ELSE [done |-> TRUE, current |-> current, seen |-> seen, result |-> Ok(current)]

RECURSIVE FollowLoop(_, _, _)
FollowLoop(current, seen, redirects) ==
  LET it == LoopIter(current, seen, redirects)
  IN  IF it.done THEN it.result ELSE FollowLoop(it.current, it.seen, redirects)

follow_redirects(initial, redirects) == FollowLoop(initial, {}, redirects)

---------------------------------------------------------------------------
(* DenoInfoJsonV1 and ModuleInfo *)

Esm(specifier, local) ==
  [kind |-> "esm", specifier |-> specifier, local |-> local,
   npm_package |-> NoStr, media_type |-> "TypeScript"]

Npm(specifier, npm_package) ==
  [kind |-> "npm", specifier |-> specifier, local |-> NoStr,
   npm_package |-> npm_package, media_type |-> "none"]

EmptyRedirects == [k \in {} |-> NoStr]

DenoInfoJsonV1(redirects, modules) ==
  [status |-> "ok", redirects |-> redirects, modules |-> modules]

\* what running `deno info --json <specifier>` can come to besides a decoded
\* document: the process does not start, exits non-zero, or prints
\* something that does not decode
ProviderFault(status) ==
  [status |-> status, redirects |-> EmptyRedirects, modules |-> <<>>]

---------------------------------------------------------------------------
(* get_deno_info and get_local_path; tag is "ok", "err" (an Err result)   *)
(* or "panic" (an expect that failed).                                    *)

Got(info) == [tag |-> "ok", info |-> info, val |-> NoStr, msg |-> ""]
Fail(tag, msg) ==
  [tag |-> tag, info |-> ProviderFault("none"), val |-> NoStr, msg |-> msg]
Path(p) == [tag |-> "ok", info |-> ProviderFault("none"), val |-> p, msg |-> ""]

\* the exit status is not looked at: whatever was printed is decoded
GetDenoInfoAnyStatus(prov) ==
  CASE prov.status = "spawn_failed" -> Fail("panic", "Failed to execute deno info command")
    [] prov.status = "malformed" -> Fail("panic", "Failed to parse JSON output")
    [] OTHER -> Got(prov)

get_deno_info(prov) ==
  CASE prov.status = "spawn_failed" -> Fail("panic", "Failed to execute deno info command")
    [] prov.status = "nonzero" -> Fail("err", "deno info command failed")
    [] prov.status = "malformed" -> Fail("panic", "Failed to parse JSON output")
    [] OTHER -> Got(prov)

\* the variant is not looked at
FindAnyKind(modules, specifier) ==
  LET hits == {i \in 1..Len(modules) : modules[i].specifier = specifier}
  IN  IF hits = {} THEN 0 ELSE CHOOSE i \in hits : \A j \in hits : i <= j

\* the index of the first module that is an Esm entry for specifier, 0 if none
FindEsm(modules, specifier) ==
  LET hits == {i \in 1..Len(modules) :
                 modules[i].kind = "esm" /\ modules[i].specifier = specifier}
  IN  IF hits = {} THEN 0 ELSE CHOOSE i \in hits : \A j \in hits : i <= j

\* the index of the first module that is an Npm entry for specifier, 0 if none
FindNpm(modules, specifier) ==
  LET hits == {i \in 1..Len(modules) :
                 modules[i].kind = "npm" /\ modules[i].specifier = specifier}
  IN  IF hits = {} THEN 0 ELSE CHOOSE i \in hits : \A j \in hits : i <= j

\* the module is looked up under the specifier asked for, redirects unread
GetLocalPathNoFollow(specifier, prov) ==
  LET got == get_deno_info(prov)
  IN  IF got.tag # "ok" THEN got
      ELSE LET i == FindEsm(got.info.modules, specifier)
           IN  IF i = 0 THEN Fail("err", "Module not found or has no local path")
               ELSE Path(got.info.modules[i].local)

get_local_path(specifier, prov) ==
  LET got == get_deno_info(prov)
  IN  IF got.tag # "ok" THEN got
      ELSE LET final == follow_redirects(specifier, got.info.redirects)
           IN  IF ~final.ok THEN Fail("err", final.err)
               ELSE LET i == FindEsm(got.info.modules, final.val)
                    IN  IF i = 0 THEN Fail("err", "Module not found or has no local path")
                        ELSE Path(got.info.modules[i].local)

---------------------------------------------------------------------------
(* The url crate, as far as resolve_id uses it: Url::parse, Url::join,    *)
(* Url::from_file_path, scheme(), path() and to_string(), on URLs without *)
(* query, fragment, port or percent-encoding.                             *)

SchemeChars ==
  {"a", "b", "c", "d", "e", "f", "g", "h", "i", "j", "k", "l", "m",
   "n", "o", "p", "q", "r", "s", "t", "u", "v", "w", "x", "y", "z"}

HasScheme(s) ==
  LET c == IndexFrom(s, ":", 1)
  IN  c > 1 /\ \A i \in 1..(c - 1) : s[i] \in SchemeChars

IsSpecial(s) == StartsWith(s, HTTP) \/ StartsWith(s, HTTPS) \/ StartsWith(s, FILE)

RECURSIVE StripSlashes(_)
StripSlashes(s) ==
  IF Len(s) > 0 /\ s[1] = "/" THEN StripSlashes(Drop(s, 1)) ELSE s

\* Url::parse(s).to_string(): a special scheme gets its "//" and a path;
\* any other scheme keeps what follows the colon as it is
UrlParse(s) ==
  IF ~HasScheme(s) THEN Err("relative URL without a base")
  ELSE LET c == IndexFrom(s, ":", 1)
           rest == StripSlashes(Drop(s, c))
       IN  IF StartsWith(s, FILE) THEN Ok(FILE \o <<"/", "/", "/">> \o rest)
           ELSE IF IsSpecial(s)
           THEN IF rest = <<>> THEN Err("empty host")
                ELSE IF IndexFrom(rest, "/", 1) = 0
                THEN Ok(SubSeq(s, 1, c) \o <<"/", "/">> \o rest \o <<"/">>)
                ELSE Ok(SubSeq(s, 1, c) \o <<"/", "/">> \o rest)
           ELSE Ok(s)

\* where the path of a parsed special URL starts
PathStart(url) == IndexFrom(url, "/", IndexFrom(url, ":", 1) + 3)

\* Url::path() of a parsed special URL
UrlPath(url) == Drop(url, PathStart(url) - 1)

\* a directory path without its last segment, never above the root
Parent(dir) ==
  IF Len(dir) <= 1 THEN dir
  ELSE LET d == SubSeq(dir, 1, Len(dir) - 1) IN SubSeq(d, 1, LastIndex(d, "/"))

RECURSIVE JoinPath(_, _)
JoinPath(dir, rel) ==
  CASE rel = <<".">> -> dir
    [] rel = <<".", ".">> -> Parent(dir)
    [] StartsWith(rel, <<".", "/">>) -> JoinPath(dir, Drop(rel, 2))
    [] StartsWith(rel, <<".", ".", "/">>) -> JoinPath(Parent(dir), Drop(rel, 3))
    [] OTHER -> dir \o rel

\* base.join(rel).to_string() for a parsed base and a reference without a
\* scheme; a base whose path is opaque (jsr:a) cannot be joined to
UrlJoin(base, rel) ==
  IF ~IsSpecial(base) THEN Err("cannot be a base")
  ELSE LET p == PathStart(base)
           origin == SubSeq(base, 1, p - 1)
           path == Drop(base, p - 1)
       IN  IF StartsWith(rel, <<"/">>) THEN Ok(origin \o rel)
           ELSE Ok(origin \o JoinPath(SubSeq(path, 1, LastIndex(path, "/")), rel))

\* Url::from_file_path: only an absolute path converts
FromFilePath(path) ==
  IF StartsWith(path, <<"/">>) THEN Ok(FILE \o <<"/", "/">> \o path)
  ELSE Err("not absolute")

---------------------------------------------------------------------------
(* The import map of resolve_id: {"imports": {"@std/assert": "jsr:@std/assert"}} *)

AliasKey == <<"@", "s", "t", "d", "/", "a", "s", "s", "e", "r", "t">>
AliasTarget == JSR \o AliasKey

\* ImportMap::resolve(id, base_url).to_string(): a path-like specifier is
\* joined to the base, a URL is itself, a bare name resolves only as the
\* one alias
ImportMapResolve(id, base_url) ==
  IF \/ StartsWith(id, <<"/">>)
     \/ StartsWith(id, <<".", "/">>)
     \/ StartsWith(id, <<".", ".", "/">>)
  THEN UrlJoin(base_url, id)
  ELSE IF UrlParse(id).ok THEN UrlParse(id)
  ELSE IF id = AliasKey THEN Ok(AliasTarget)
  ELSE Err("unmapped bare specifier")

---------------------------------------------------------------------------
(* Hook arguments and outcomes. *)

None == [some |-> FALSE, val |-> NoStr]
Some(v) == [some |-> TRUE, val |-> v]

\* Ok(Some(HookResolveIdOutput { id, external, .. }))
ResolvedTo(id, external) ==
  [kind |-> "resolved", id |-> id, external |-> external, code |-> NoStr,
   module_type |-> "none", msg |-> "", cause |-> ""]

\* Ok(Some(HookLoadOutput { code, module_type: Some(ModuleType::Tsx), .. }))
Loaded(code) ==
  [kind |-> "loaded", id |-> NoStr, external |-> "none", code |-> code,
   module_type |-> "Tsx", msg |-> "", cause |-> ""]

\* Ok(None): the host falls back to its default behaviour
Unhandled ==
  [kind |-> "unhandled", id |-> NoStr, external |-> "none", code |-> NoStr,
   module_type |-> "none", msg |-> "", cause |-> ""]

\* a failed expect, or a panic of a callee
Panic(msg, cause) ==
  [kind |-> "panic", id |-> NoStr, external |-> "none", code |-> NoStr,
   module_type |-> "none", msg |-> msg, cause |-> cause]

\* Err(..) propagated by `?`
HookErr(cause) ==
  [kind |-> "error", id |-> NoStr, external |-> "none", code |-> NoStr,
   module_type |-> "none", msg |-> "", cause |-> cause]

\* what `expect(label)` turns a callee that did not succeed into
Expect(got, label) ==
  IF got.tag = "panic" THEN Panic(got.msg, "") ELSE Panic(label, got.msg)

Did(out, queries, reads, delegated) ==
  [outcome |-> out,
   effects |-> [queries |-> queries, reads |-> reads, delegated |-> delegated]]

---------------------------------------------------------------------------
(* DenoLoaderPlugin::resolve_id *)

\* lines 113-128: a specifier that starts with '.' is joined to the importer
RewriteRelative(specifier, importer) ==
  IF StartsWith(specifier, <<".">>)
  THEN LET base == IF importer.some THEN UrlParse(importer.val) ELSE Err("no importer")
           joined == IF base.ok THEN UrlJoin(base.val, specifier) ELSE base
       IN  IF joined.ok
           THEN IF StartsWith(joined.val, FILE) THEN UrlPath(joined.val) ELSE joined.val
           ELSE specifier
  ELSE specifier

\* lines 130-134: the working directory as a file URL, file:/// without one
BaseUrl(cwd) ==
  LET u == FromFilePath(cwd)
  IN  IF u.ok THEN u.val ELSE FILE \o <<"/", "/", "/">>

\* lines 136-145: the rewritten specifier the dispatch looks at
MaybeResolved(specifier, importer, cwd) ==
  LET id == RewriteRelative(specifier, importer)
      r == ImportMapResolve(id, BaseUrl(cwd))
  IN  IF r.ok THEN r.val ELSE id

\* npm_package.split('@').next().unwrap_or(&npm_package)
PackageName(npm_package) ==
  LET at == IndexFrom(npm_package, "@", 1)
  IN  IF at = 0 THEN npm_package ELSE SubSeq(npm_package, 1, at - 1)

\* the id the host's own resolver finds for a package name
HostResolve(name) == <<"/", "n", "/">> \o name

\* lines 176-191: ctx.resolve(..).await? and the `?` on its inner result
Delegate(package_name, del) ==
  CASE del = "outer_err" -> HookErr("ctx.resolve failed")
    [] del = "inner_err" -> HookErr("package not resolved")
    [] OTHER -> ResolvedTo(HostResolve(package_name), "None")

\* lines 165-193
ResolveNpm(maybe_resolved, importer, prov, del) ==
  LET got == get_deno_info(prov)
  IN  IF got.tag # "ok"
      THEN Did(Expect(got, "get info failed"), <<maybe_resolved>>, <<>>, <<>>)
      ELSE LET redirected == follow_redirects(maybe_resolved, got.info.redirects)
           IN  IF ~redirected.ok
               THEN Did(Panic("follow_redirects failed", redirected.err),
                        <<maybe_resolved>>, <<>>, <<>>)
               ELSE LET i == FindNpm(got.info.modules, redirected.val)
                    IN  IF i = 0
                        THEN Did(Unhandled, <<maybe_resolved>>, <<>>, <<>>)
                        ELSE LET package_name ==
                                   PackageName(got.info.modules[i].npm_package)
                             IN  Did(Delegate(package_name, del), <<maybe_resolved>>,
                                     <<>>,
                                     <<[name |-> package_name, importer |-> importer,
                                        skip_self |-> TRUE]>>)

\* lines 149-158
ResolveJsr(maybe_resolved, prov) ==
  LET got == get_deno_info(prov)
  IN  IF got.tag # "ok"
      THEN Did(Expect(got, "get info failed"), <<maybe_resolved>>, <<>>, <<>>)
      ELSE LET final == follow_redirects(maybe_resolved, got.info.redirects)
           IN  IF ~final.ok
               THEN Did(Panic("follow_redirects failed", final.err),
                        <<maybe_resolved>>, <<>>, <<>>)
               ELSE Did(ResolvedTo(final.val, "Some(false)"),
                        <<maybe_resolved>>, <<>>, <<>>)

resolve_id(specifier, importer, cwd, prov, del) ==
  LET maybe_resolved == MaybeResolved(specifier, importer, cwd)
  IN  IF StartsWith(maybe_resolved, JSR) THEN ResolveJsr(maybe_resolved, prov)
      ELSE IF StartsWith(maybe_resolved, HTTP) \/ StartsWith(maybe_resolved, HTTPS)
      THEN Did(ResolvedTo(maybe_resolved, "Some(false)"), <<>>, <<>>, <<>>)
      ELSE IF StartsWith(maybe_resolved, NPM)
      THEN ResolveNpm(maybe_resolved, importer, prov, del)
      ELSE Did(Unhandled, <<>>, <<>>, <<>>)

---------------------------------------------------------------------------
(* DenoLoaderPlugin::load *)

\* String::from_utf8_lossy: a byte that is no UTF-8 becomes U+FFFD
Utf8Lossy(bytes) ==
  [i \in 1..Len(bytes) |-> IF bytes[i] = "0xFF" THEN "U+FFFD" ELSE bytes[i]]

\* npm: ids are taken as well
LoadHandlesNpmToo(id) ==
  StartsWith(id, JSR) \/ StartsWith(id, HTTP) \/ StartsWith(id, HTTPS) \/ StartsWith(id, NPM)

\* lines 203-208: the ids load takes
LoadHandles(id) ==
  StartsWith(id, JSR) \/ StartsWith(id, HTTP) \/ StartsWith(id, HTTPS)

load(id, prov, file) ==
  IF LoadHandles(id)
  THEN LET local_path == get_local_path(id, prov)
       IN  IF local_path.tag # "ok"
           THEN Did(Expect(local_path, "local path not found"), <<id>>, <<>>, <<>>)
           ELSE IF file.status = "ok"
           THEN Did(Loaded(Utf8Lossy(file.bytes)), <<id>>, <<local_path.val>>, <<>>)
           ELSE Did(Panic("cant read local path", "io error"),
                    <<id>>, <<local_path.val>>, <<>>)
  ELSE Did(Unhandled, <<>>, <<>>, <<>>)

---------------------------------------------------------------------------
(* The inputs of the model. *)

NameA == <<"a">>
NameB == <<"b">>

\* what a provider response may name besides the queried specifier
Targets == {JSR \o NameB, NPM \o NameB}

\* HashMap<String, String> with at most MaxRedirects entries over U
RedirectMaps(U) ==
  UNION {[K -> U] : K \in {S \in SUBSET U : Cardinality(S) <= MaxRedirects}}

FollowUniverse == {JSR \o NameA, NPM \o NameA} \cup Targets

\* the cached files a response may name, and the package references
Locals == {<<"/", "c", "/", "1">>, <<"/", "c", "/", "2">>}
PackageRefs == {<<"@", "s", "/", "p", "@", "1">>, <<"p", "@", "1">>, <<"@", "s", "/", "p">>}

\* Vec<ModuleInfo> with at most MaxModules entries about the specifiers U
ModuleLists(U, locals, refs) ==
  LET entries == {Esm(u, l) : u \in U, l \in locals}
                   \cup {Npm(u, r) : u \in U, r \in refs}
  IN  UNION {[1..n -> entries] : n \in 0..MaxModules}

\* what a query of the provider for specifier q can come to
ProviderResults(q, locals, refs) ==
  {ProviderFault(f) : f \in {"spawn_failed", "nonzero", "malformed"}}
    \cup {DenoInfoJsonV1(r, m) : r \in RedirectMaps({q} \cup Targets),
                                 m \in ModuleLists({q} \cup Targets, locals, refs)}

NoQuery == ProviderFault("none")

NoFile == [status |-> "none", bytes |-> <<>>]
FileResults ==
  {[status |-> "missing", bytes |-> <<>>],
   [status |-> "ok", bytes |-> <<"x", "0xFF">>]}

DelegateResults == {"ok", "outer_err", "inner_err"}

\* what the host asks resolve_id about
RawSpecifiers ==
  {JSR \o NameA, NPM \o NameA, HTTPS \o <<"/", "/", "h", "/", "a">>,
   HTTP \o NameA, NameA, AliasKey, <<".", "/", "a">>, <<".", ".", "/", "a">>}

ImporterFile == FILE \o <<"/", "/", "/", "p", "/", "m">>
ImporterHttps == HTTPS \o <<"/", "/", "h", "/", "d", "/", "m">>
ImporterPath == <<"/", "p", "/", "m">>

\* a relative specifier is tried with every kind of importer
Importers(specifier) ==
  IF StartsWith(specifier, <<".">>)
  THEN {None, Some(ImporterFile), Some(ImporterHttps), Some(ImporterPath), Some(JSR \o NameA)}
  ELSE {Some(ImporterFile)}

Cwds == {<<"/", "w">>}

\* what the host asks load about
LoadIds ==
  {HTTP \o <<"/", "/", "h", "/", "b">>, NPM \o NameA, <<"/", "p", "/", "a">>, NameA}

Idle ==
  [op |-> "none", specifier |-> NoStr, importer |-> None, cwd |-> NoStr,
   from_resolve |-> FALSE]
NoEnv == [provider |-> NoQuery, delegate |-> "none", file |-> NoFile]
NoOutcome ==
  [kind |-> "none", id |-> NoStr, external |-> "none", code |-> NoStr,
   module_type |-> "none", msg |-> "", cause |-> ""]
NoEffects == [queries |-> <<>>, reads |-> <<>>, delegated |-> <<>>]
NoLoop == [pc |-> "none"]

---------------------------------------------------------------------------
(* The redirect resolver, one loop pass per step. *)

InitFollow ==
  /\ loop \in {[initial |-> i, redirects |-> r, current |-> i, seen |-> {},
                 steps |-> 0, pc |-> "loop", result |-> Err("")] :
                i \in FollowUniverse, r \in RedirectMaps(FollowUniverse)}
  /\ call = Idle
  /\ env = NoEnv
  /\ outcome = NoOutcome
  /\ effects = NoEffects
  /\ tasks = <<>>

FollowStep ==
  /\ loop.pc = "loop"
  /\ LET it == LoopIter(loop.current, loop.seen, loop.redirects)
     IN  loop' = [loop EXCEPT !.current = it.current, !.seen = it.seen,
                              !.steps = @ + 1,
                              !.pc = IF it.done THEN "done" ELSE "loop",
                              !.result = it.result]
  /\ UNCHANGED <<call, env, outcome, effects, tasks>>

NextFollow == FollowStep

SpecFollow == InitFollow /\ [][NextFollow]_vars

---------------------------------------------------------------------------
(* What a call meets: the provider answers only a call that queries it,   *)
(* the host's resolver only a call that delegates, the file system only a *)
(* call that reads.                                                       *)

ResolveProviders(specifier, importer, cwd) ==
  IF resolve_id(specifier, importer, cwd, NoQuery, "none").effects.queries = <<>>
  THEN {NoQuery}
  ELSE ProviderResults(MaybeResolved(specifier, importer, cwd),
                       {<<"/", "c", "/", "1">>}, PackageRefs)

ResolveDelegates(specifier, importer, cwd, prov) ==
  IF resolve_id(specifier, importer, cwd, prov, "none").effects.delegated = <<>>
  THEN {"none"}
  ELSE DelegateResults

LoadProviders(id) ==
  IF load(id, NoQuery, NoFile).effects.queries = <<>>
  THEN {NoQuery}
  ELSE ProviderResults(id, Locals, {<<"p", "@", "1">>})

LoadFiles(id, prov) ==
  IF load(id, prov, NoFile).effects.reads = <<>> THEN {NoFile} ELSE FileResults

---------------------------------------------------------------------------
(* The host calling the two hooks, one call at a time. *)

Init ==
  /\ loop = NoLoop
  /\ call = Idle
  /\ env = NoEnv
  /\ outcome = NoOutcome
  /\ effects = NoEffects
  /\ tasks = <<>>

\* the host resolves an import
ResolveId ==
  /\ call.op = "none"
  /\ \E specifier \in RawSpecifiers, cwd \in Cwds :
       \E importer \in Importers(specifier) :
         \E prov \in ResolveProviders(specifier, importer, cwd) :
           \E del \in ResolveDelegates(specifier, importer, cwd, prov) :
             LET r == resolve_id(specifier, importer, cwd, prov, del)
             IN  /\ call' = [op |-> "resolve_id", specifier |-> specifier,
                             importer |-> importer, cwd |-> cwd, from_resolve |-> FALSE]
                 /\ env' = [provider |-> prov, delegate |-> del, file |-> NoFile]
                 /\ outcome' = r.outcome
                 /\ effects' = r.effects
                 /\ UNCHANGED <<loop, tasks>>

LoadCall(id, from_resolve) ==
  \E prov \in LoadProviders(id) :
    \E file \in LoadFiles(id, prov) :
      LET r == load(id, prov, file)
      IN  /\ call' = [op |-> "load", specifier |-> id, importer |-> None,
                      cwd |-> NoStr, from_resolve |-> from_resolve]
          /\ env' = [provider |-> prov, delegate |-> "none", file |-> file]
          /\ outcome' = r.outcome
          /\ effects' = r.effects
          /\ UNCHANGED <<loop, tasks>>

\* the host loads some id
Load ==
  /\ call.op = "none"
  /\ \E id \in LoadIds : LoadCall(id, FALSE)

\* resolve_id returned an id with external: Some(false): the host takes the
\* module as the plugin's and keeps its id
Claim ==
  /\ call.op = "resolve_id"
  /\ outcome.kind = "resolved"
  /\ outcome.external = "Some(false)"
  /\ call' = [op |-> "claimed", specifier |-> outcome.id, importer |-> None,
              cwd |-> NoStr, from_resolve |-> TRUE]
  /\ env' = NoEnv
  /\ outcome' = NoOutcome
  /\ effects' = NoEffects
  /\ UNCHANGED <<loop, tasks>>

\* the host loads the id that resolve_id claimed
LoadResolved ==
  /\ call.op = "claimed"
  /\ LoadCall(call.specifier, TRUE)

\* the call is over; nothing of it is kept, and the host may call again
Return ==
  /\ call.op \in {"resolve_id", "load"}
  /\ call' = Idle
  /\ env' = NoEnv
  /\ outcome' = NoOutcome
  /\ effects' = NoEffects
  /\ UNCHANGED <<loop, tasks>>

Next == ResolveId \/ Load \/ Claim \/ LoadResolved \/ Return

Spec == Init /\ [][Next]_vars

---------------------------------------------------------------------------
(* Hook invocations in flight at once.  An invocation is suspended where  *)
(* it waits for something outside it: the deno subprocess, the host's     *)
(* resolver, the file system.  What it got so far is in its own bindings  *)
(* (info, del, file); the plugin value itself has no field.               *)

\* the answers of the world, the same for every invocation
AnswerPlain(q) ==
  DenoInfoJsonV1(EmptyRedirects,
                 <<Npm(q, <<"p", "@", "1">>), Esm(q, <<"/", "c", "/", "1">>)>>)

AnswerRedirected(q) ==
  DenoInfoJsonV1([k \in {q} |-> NPM \o NameB],
                 <<Esm(NPM \o NameB, <<"/", "c", "/", "2">>),
                   Npm(NPM \o NameB, <<"@", "s", "/", "p", "@", "1">>)>>)

\* the invocations the host may have in flight
TaskStarts ==
  {[op |-> "resolve_id", specifier |-> JSR \o NameA, importer |-> Some(ImporterFile),
    cwd |-> <<"/", "w">>],
   [op |-> "resolve_id", specifier |-> NPM \o NameA, importer |-> Some(ImporterFile),
    cwd |-> <<"/", "w">>],
   [op |-> "resolve_id", specifier |-> <<".", "/", "a">>, importer |-> Some(ImporterHttps),
    cwd |-> <<"/", "w">>],
   [op |-> "load", specifier |-> JSR \o NameB, importer |-> None, cwd |-> NoStr],
   [op |-> "load", specifier |-> HTTP \o <<"/", "/", "h", "/", "b">>, importer |-> None,
    cwd |-> NoStr],
   [op |-> "load", specifier |-> NPM \o NameA, importer |-> None, cwd |-> NoStr]}

\* the hook of an invocation, run on what the invocation has in its bindings
RunHook(a, info, del, file) ==
  IF a.op = "resolve_id"
  THEN resolve_id(a.specifier, a.importer, a.cwd, info, del)
  ELSE load(a.specifier, info, file)

\* the specifiers the invocations query the provider for
QuerySpecifiers ==
  {JSR \o NameA, NPM \o NameA, JSR \o NameB, HTTP \o <<"/", "/", "h", "/", "b">>}

\* every world answers each specifier plainly or with a redirect
Worlds ==
  {[provider |-> [q \in QuerySpecifiers |->
                    IF q \in R THEN AnswerRedirected(q) ELSE AnswerPlain(q)],
    delegate |-> d, file |-> f] :
     R \in SUBSET QuerySpecifiers, d \in {"ok", "inner_err"}, f \in {"missing", "ok"}}

\* what reading path from the world's file system gives
WorldFile(world, path) ==
  IF world.file = "ok" THEN [status |-> "ok", bytes |-> path \o <<"0xFF">>]
  ELSE [status |-> "missing", bytes |-> <<>>]

InitConcurrent ==
  /\ loop = NoLoop
  /\ call = Idle
  /\ outcome = NoOutcome
  /\ effects = NoEffects
  /\ env \in Worlds
  /\ tasks \in {ts \in [1..NumTasks ->
                         {[args |-> a, pc |-> "start", pending |-> NoStr,
                           info |-> NoQuery, del |-> "none",
                           file |-> NoFile, outcome |-> NoOutcome, effects |-> NoEffects] :
                            a \in TaskStarts}] :
                 \A i, j \in 1..NumTasks : i # j => ts[i].args.specifier # ts[j].args.specifier}

\* where an invocation whose hook, run on its bindings, comes to r goes on
\* from: the first thing the hook consults and the invocation has not got
AdvanceTo(task, r) ==
  IF r.effects.queries # <<>> /\ task.info = NoQuery
  THEN [task EXCEPT !.pc = "provider", !.pending = r.effects.queries[1]]
  ELSE IF r.effects.delegated # <<>> /\ task.del = "none"
  THEN [task EXCEPT !.pc = "delegate", !.pending = r.effects.delegated[1].name]
  ELSE IF r.effects.reads # <<>> /\ task.file = NoFile
  THEN [task EXCEPT !.pc = "file", !.pending = r.effects.reads[1]]
  ELSE [task EXCEPT !.pc = "done", !.pending = NoStr,
                    !.outcome = r.outcome, !.effects = r.effects]

Advance(task) ==
  AdvanceTo(task, RunHook(task.args, task.info, task.del, task.file))

\* the host calls the hook: it runs to its first wait, or to its end
Start(t) ==
  /\ tasks[t].pc = "start"
  /\ tasks' = [tasks EXCEPT ![t] = Advance(tasks[t])]
  /\ UNCHANGED <<loop, call, env, outcome, effects>>

\* the answer of the subprocess is kept in one slot for all the invocations
\* in flight
ProviderExitShared(t) ==
  /\ tasks[t].pc = "provider"
  /\ tasks' = [u \in 1..NumTasks |->
                 IF u = t
                 THEN Advance([tasks[t] EXCEPT !.info = env.provider[tasks[t].pending]])
                 ELSE IF tasks[u].pc \in {"provider", "delegate", "file"}
                 THEN [tasks[u] EXCEPT !.info = env.provider[tasks[t].pending]]
                 ELSE tasks[u]]
  /\ UNCHANGED <<loop, call, env, outcome, effects>>

\* the deno subprocess of invocation t exits: `let info = get_deno_info(..)`
ProviderExit(t) ==
  /\ tasks[t].pc = "provider"
  /\ tasks' = [tasks EXCEPT ![t] =
                 Advance([tasks[t] EXCEPT !.info = env.provider[tasks[t].pending]])]
  /\ UNCHANGED <<loop, call, env, outcome, effects>>

\* ctx.resolve(..).await of invocation t is ready
DelegateReturns(t) ==
  /\ tasks[t].pc = "delegate"
  /\ tasks' = [tasks EXCEPT ![t] = Advance([tasks[t] EXCEPT !.del = env.delegate])]
  /\ UNCHANGED <<loop, call, env, outcome, effects>>

\* OsFileSystem::read of invocation t returns
FileRead(t) ==
  /\ tasks[t].pc = "file"
  /\ tasks' = [tasks EXCEPT ![t] =
                 Advance([tasks[t] EXCEPT !.file = WorldFile(env, tasks[t].pending)])]
  /\ UNCHANGED <<loop, call, env, outcome, effects>>

NextConcurrent ==
  \E t \in 1..NumTasks :
    Start(t) \/ ProviderExit(t) \/ DelegateReturns(t) \/ FileRead(t)

SpecConcurrent == InitConcurrent /\ [][NextConcurrent]_vars

---------------------------------------------------------------------------
(* The redirect chain, stated without the loop. *)

\* the k-th value on the chain initial, redirects[initial], ...
RECURSIVE ChainAt(_, _, _)
ChainAt(initial, redirects, k) ==
  IF k = 0 THEN initial
  ELSE LET p == ChainAt(initial, redirects, k - 1)
       IN  IF p \in DOMAIN redirects THEN redirects[p] ELSE p

\* a key of redirects occurs twice on the chain from initial
HasCycle(initial, redirects) ==
  LET n == Cardinality(DOMAIN redirects)
  IN  \E j \in 0..n, k \in 0..n :
        /\ j < k
        /\ ChainAt(initial, redirects, j) = ChainAt(initial, redirects, k)
        /\ ChainAt(initial, redirects, j) \in DOMAIN redirects

\* the first value on the chain that is no key of redirects
FixedPoint(initial, redirects) ==
  LET n == Cardinality(DOMAIN redirects)
      k == CHOOSE i \in 0..n :
             /\ ChainAt(initial, redirects, i) \notin DOMAIN redirects
             /\ \A j \in 0..(i - 1) : ChainAt(initial, redirects, j) \in DOMAIN redirects
  IN  ChainAt(initial, redirects, k)

(* C1: on a redirect map with no cycle reachable from the start key the   *)
(* loop ends after at most one pass per key plus one, and its result is   *)
(* the first value on the chain from the start that is not a key (the     *)
(* start itself when it is no key); the function computes the same.       *)
C1_FollowFixedPoint ==
  (loop.pc \in {"loop", "done"} /\ ~HasCycle(loop.initial, loop.redirects)) =>
    /\ loop.steps <= Cardinality(DOMAIN loop.redirects) + 1
    /\ loop.pc = "done" =>
         /\ loop.result = Ok(FixedPoint(loop.initial, loop.redirects))
         /\ loop.result.val \notin DOMAIN loop.redirects
         /\ follow_redirects(loop.initial, loop.redirects) = loop.result

C1_Witness ==
  /\ loop.pc = "done"
  /\ ~HasCycle(loop.initial, loop.redirects)
  /\ loop.steps = 3
  /\ loop.result.ok
  /\ loop.result.val # loop.initial

(* C2: on a redirect map with a cycle reachable from the start key (a     *)
(* self-redirect included) the loop ends after at most one pass per key   *)
(* plus one, with the circular-redirect error and no specifier.           *)
C2_FollowCycleFails ==
  (loop.pc \in {"loop", "done"} /\ HasCycle(loop.initial, loop.redirects)) =>
    /\ loop.steps <= Cardinality(DOMAIN loop.redirects) + 1
    /\ loop.pc = "done" =>
         /\ loop.result = Err("Circular redirect detected")
         /\ follow_redirects(loop.initial, loop.redirects) = loop.result

\* a cycle that the start key leads into without being on it
C2_Witness ==
  /\ loop.pc = "done"
  /\ HasCycle(loop.initial, loop.redirects)
  /\ loop.redirects[loop.initial] # loop.initial
  /\ loop.redirects[loop.redirects[loop.initial]] = loop.redirects[loop.initial]
  /\ ~loop.result.ok

---------------------------------------------------------------------------
(* Properties of the hooks. *)

\* the rewritten specifier of the resolve_id call at hand
CallRewritten == MaybeResolved(call.specifier, call.importer, call.cwd)

\* the provider answered the call at hand with a document whose redirects
\* have no cycle from specifier q
Answered(q) ==
  /\ env.provider.status = "ok"
  /\ ~HasCycle(q, env.provider.redirects)

\* the indices of the modules of the given variant about specifier s
Entries(kind, s) ==
  {i \in 1..Len(env.provider.modules) :
     env.provider.modules[i].kind = kind /\ env.provider.modules[i].specifier = s}

First(S) == CHOOSE i \in S : \A j \in S : i <= j

\* the reference cut at its version separator: the second '@' of a scoped
\* reference, the first '@' of any other, the whole reference without one
PackageNameScoped(npm_package) ==
  LET at == IF StartsWith(npm_package, <<"@">>)
            THEN IndexFrom(npm_package, "@", 2)
            ELSE IndexFrom(npm_package, "@", 1)
  IN  IF at = 0 THEN npm_package ELSE SubSeq(npm_package, 1, at - 1)

(* C3: the package name that the npm: branch of resolve_id hands to the   *)
(* host's resolver is the package reference of the matched entry cut at   *)
(* its version separator (the second '@' of a scoped reference), never    *)
(* the empty string.                                                      *)
C3_PackageNameCutAtVersion ==
  (call.op = "resolve_id" /\ effects.delegated # <<>>) =>
    LET redirected == FixedPoint(CallRewritten, env.provider.redirects)
        entry == env.provider.modules[First(Entries("npm", redirected))]
    IN  /\ effects.delegated[1].name = PackageNameScoped(entry.npm_package)
        /\ effects.delegated[1].name # <<>>

(* C4: resolve_id on a rewritten npm: specifier, answered by a response   *)
(* with no npm entry for the redirect-resolved specifier, fails: it does  *)
(* not come back unhandled and does not call the host's resolver.         *)
C4_NpmWithoutPackageModuleFails ==
  (/\ call.op = "resolve_id"
   /\ StartsWith(CallRewritten, NPM)
   /\ Answered(CallRewritten)
   /\ Entries("npm", FixedPoint(CallRewritten, env.provider.redirects)) = {}) =>
    /\ outcome.kind \in {"panic", "error"}
    /\ effects.delegated = <<>>

(* C5: a resolve_id or load call whose provider query exits non-zero ends *)
(* as a failure that names the failed command: never unhandled, never a   *)
(* resolved id or loaded content, and nothing is delegated or read.       *)
C5_ProviderFailureFails ==
  (call.op \in {"resolve_id", "load"} /\ env.provider.status = "nonzero") =>
    /\ outcome.kind = "panic"
    /\ outcome.cause = "deno info command failed"
    /\ outcome.msg = (IF call.op = "load" THEN "local path not found" ELSE "get info failed")
    /\ Len(effects.queries) = 1
    /\ effects.reads = <<>>
    /\ effects.delegated = <<>>

C5_Witness ==
  /\ call.op = "resolve_id"
  /\ StartsWith(CallRewritten, NPM)
  /\ env.provider.status = "nonzero"
  /\ outcome.kind = "panic"

(* C6: load on an id that starts with none of jsr:, http:, https: comes   *)
(* back unhandled, with no provider query and no file read.               *)
C6_LoadLeavesOtherIds ==
  (/\ call.op = "load"
   /\ ~StartsWith(call.specifier, JSR)
   /\ ~StartsWith(call.specifier, HTTP)
   /\ ~StartsWith(call.specifier, HTTPS)) =>
    /\ outcome = Unhandled
    /\ effects = NoEffects
    /\ env.provider = NoQuery
    /\ env.file = NoFile

C6_Witness ==
  /\ call.op = "load"
  /\ StartsWith(call.specifier, NPM)
  /\ outcome = Unhandled
  /\ effects.queries = <<>>

(* C7: load on a jsr: id, answered by a response whose entries for the    *)
(* redirect-resolved specifier are npm entries only, fails with "Module   *)
(* not found or has no local path"; no file is read.                      *)
C7_LoadJsrNpmVariantFails ==
  (/\ call.op = "load"
   /\ StartsWith(call.specifier, JSR)
   /\ Answered(call.specifier)
   /\ Entries("npm", FixedPoint(call.specifier, env.provider.redirects)) # {}
   /\ Entries("esm", FixedPoint(call.specifier, env.provider.redirects)) = {}) =>
    /\ outcome = Panic("local path not found", "Module not found or has no local path")
    /\ effects.reads = <<>>
    /\ env.file = NoFile

C7_Witness ==
  /\ call.op = "load"
  /\ StartsWith(call.specifier, JSR)
  /\ Answered(call.specifier)
  /\ FixedPoint(call.specifier, env.provider.redirects) # call.specifier
  /\ Entries("npm", FixedPoint(call.specifier, env.provider.redirects)) # {}
  /\ Entries("esm", FixedPoint(call.specifier, env.provider.redirects)) = {}
  /\ outcome.kind = "panic"

(* C8: for a handled id, answered by a response with acyclic redirects    *)
(* and an esm entry for the redirect-resolved specifier, the local path   *)
(* resolved for loading is the local field of that entry (of the first    *)
(* such entry, should the response list several), whatever the length of  *)
(* the redirect chain, and it is the one path that load reads.            *)
C8_LocalPathOfResolvedEsm ==
  (/\ call.op = "load"
   /\ LoadHandles(call.specifier)
   /\ Answered(call.specifier)
   /\ Entries("esm", FixedPoint(call.specifier, env.provider.redirects)) # {}) =>
    LET hits == Entries("esm", FixedPoint(call.specifier, env.provider.redirects))
        entry == env.provider.modules[First(hits)]
    IN  /\ get_local_path(call.specifier, env.provider) = Path(entry.local)
        /\ effects.reads = <<entry.local>>
        /\ outcome.kind \in {"loaded", "panic"}
        /\ outcome.kind = "panic" => outcome.msg = "cant read local path"

\* a chain of two redirects to an esm entry listed after an npm entry
C8_Witness ==
  /\ call.op = "load"
  /\ Answered(call.specifier)
  /\ ChainAt(call.specifier, env.provider.redirects, 1) # call.specifier
  /\ ChainAt(call.specifier, env.provider.redirects, 2)
       # ChainAt(call.specifier, env.provider.redirects, 1)
  /\ Entries("esm", FixedPoint(call.specifier, env.provider.redirects)) = {2}
  /\ effects.reads = <<env.provider.modules[2].local>>
  /\ outcome.kind = "loaded"

(* C10: an id that resolve_id returned with external: Some(false) is an   *)
(* id that load handles: load on it never comes back unhandled.           *)
C10_ClaimedIdIsLoaded ==
  (call.op = "load" /\ call.from_resolve) => outcome.kind # "unhandled"

\* the hook of invocation t run alone, from its call to its return, in the
\* world of the behaviour
Alone(t) ==
  LET a == tasks[t].args
      probe == RunHook(a, NoQuery, "none", NoFile)
      info == IF probe.effects.queries = <<>> THEN NoQuery
              ELSE env.provider[probe.effects.queries[1]]
      asked == RunHook(a, info, "none", NoFile)
      del == IF asked.effects.delegated = <<>> THEN "none" ELSE env.delegate
      file == IF asked.effects.reads = <<>> THEN NoFile
              ELSE WorldFile(env, asked.effects.reads[1])
  IN  RunHook(a, info, del, file)

\* a step of invocation t leaves the world and every other invocation as is
OwnStep(t) ==
  /\ env' = env
  /\ \A u \in 1..NumTasks : u # t => tasks'[u] = tasks[u]

(* C9: however the steps of concurrent resolve_id and load invocations    *)
(* for different specifiers interleave, an invocation that is over has    *)
(* the outcome and the effects it has when run alone, and every step      *)
(* changes the bindings of one invocation only, never the world or what   *)
(* another invocation holds.                                              *)
C9_InvocationsIndependent ==
  /\ [](\A t \in DOMAIN tasks :
          tasks[t].pc = "done" =>
            /\ tasks[t].outcome = Alone(t).outcome
            /\ tasks[t].effects = Alone(t).effects)
  /\ [][\E t \in 1..NumTasks : OwnStep(t)]_vars

\* an invocation that delegated is over while another, which has its
\* provider answer, waits for its file
C9_Witness ==
  /\ DOMAIN tasks = 1..NumTasks
  /\ tasks[1].pc = "done"
  /\ tasks[1].outcome.kind = "resolved"
  /\ tasks[1].effects.delegated # <<>>
  /\ tasks[2].pc = "file"
  /\ tasks[1].info # tasks[2].info

====
